---- MODULE Spec2Model ----
(***************************************************************************)
(* Model of the demo HTTP responder of docker-k8s-helm-local-demo          *)
(* (src/app/index.js, run by the container recipe in src/unnamed/part_000   *)
(* with express ^4.18.2 on node 18).                                       *)
(*                                                                         *)
(* JavaScript values are tagged records, JavaScript strings that the code  *)
(* parses (the PORT value, request paths) are sequences of one-character   *)
(* strings, and text the code only produces (bodies, the log line) is a    *)
(* TLA+ string.                                                            *)
(***************************************************************************)
EXTENDS Integers, Sequences, FiniteSets, TLC

VARIABLES env, port, routes, pc, boundPort, boundPath, listenCalls,
          exitCode, log, req, wire

vars == <<env, port, routes, pc, boundPort, boundPath, listenCalls,
          exitCode, log, req, wire>>

(***************************************************************************)
(* Bounds and input domains                                                *)
(***************************************************************************)
MaxReq == 2

Reqs == 1..MaxReq

Methods == {"GET", "POST"}

Paths == { <<"/">>,
           <<"/", "h", "e", "a", "l", "t", "h">>,
           <<"/", "H", "e", "a", "l", "t", "h", "/">>,
           <<"/", "n", "o", "p", "e">> }

EphemeralPorts == {32768}

DstPorts == {6969, 8081} \cup EphemeralPorts

EnvPortStrings == { <<>>,
                    <<"0">>,
                    <<"8", "0", "8", "1">>,
                    <<"6", "9", "6", "9">>,
                    <<"7", "0", "0", "0", "0">>,
                    <<"a", "b", "c">> }

(***************************************************************************)
(* JavaScript values                                                       *)
(***************************************************************************)
Undefined == [t |-> "undefined", s |-> <<>>, n |-> 0]

Str(s) == [t |-> "string", s |-> s, n |-> 0]

Num(n) == [t |-> "number", s |-> <<>>, n |-> n]

\* ToBoolean: undefined, the empty string and 0 are falsy.
Truthy(v) ==
    CASE v.t = "undefined" -> FALSE
      [] v.t = "string"    -> v.s # <<>>
      [] v.t = "number"    -> v.n # 0

\* a || b
JSOr(a, b) == IF Truthy(a) THEN a ELSE b

DigitChars == <<"0", "1", "2", "3", "4", "5", "6", "7", "8", "9">>

IsDigit(c) == \E i \in 1..10 : DigitChars[i] = c

DigitVal(c) == (CHOOSE i \in 1..10 : DigitChars[i] = c) - 1

RECURSIVE ParseDigits(_, _)
ParseDigits(s, acc) ==
    IF s = <<>> THEN acc
    ELSE ParseDigits(Tail(s), acc * 10 + DigitVal(Head(s)))

NaN == 0 - 1

\* Number(v) over the modelled alphabet: "" is 0, a digit string is its
\* decimal value, anything else is NaN.
ToNumeric(v) ==
    CASE v.t = "number"    -> v.n
      [] v.t = "undefined" -> NaN
      [] v.t = "string"    ->
           IF \A i \in 1..Len(v.s) : IsDigit(v.s[i])
           THEN ParseDigits(v.s, 0)
           ELSE NaN

RECURSIVE DigitsOf(_)
DigitsOf(n) ==
    IF n < 10 THEN <<DigitChars[n + 1]>>
    ELSE Append(DigitsOf(n \div 10), DigitChars[(n % 10) + 1])

RECURSIVE Join(_)
Join(s) == IF s = <<>> THEN "" ELSE s[1] \o Join(Tail(s))

\* String(v), as a template literal interpolates it.
JSString(v) ==
    CASE v.t = "string"    -> Join(v.s)
      [] v.t = "number"    -> Join(DigitsOf(v.n))
      [] v.t = "undefined" -> "undefined"

(***************************************************************************)
(* The program's constants                                                 *)
(***************************************************************************)
DefaultPortReadme == 3000

DefaultPort == 6969

DockerfileEnvPort == <<"6", "9", "6", "9">>

DockerfileExpose == 6969

RepoUrl == "https://github.com/KashifWajid/docker-k8s-helm-local-demo"

LinkText == "App 1 : docker-k8s-helm-local-demo"

RootPath == <<"/">>

HealthPath == <<"/", "h", "e", "a", "l", "t", "h">>

UncaughtExceptionExitCode == 1

MaxPort == 65535

ReadPortValueIgnoresEnv(e) == Num(DefaultPort)

\* const port = process.env.PORT || 6969;
ReadPortValue(e) == JSOr(e.PORT, Num(DefaultPort))

(***************************************************************************)
(* express: the response object                                            *)
(***************************************************************************)
NewRes == [statusCode |-> 200, contentType |-> "", body |-> "", finished |-> FALSE]

MimeLookup(ext) ==
    CASE ext = "html" -> "text/html"
      [] ext = "txt"  -> "text/plain"
      [] ext = "json" -> "application/json"
      [] OTHER        -> "application/octet-stream"

\* res.set('Content-Type', v) appends the charset of the media type.
WithCharset(m) ==
    IF m \in {"text/html", "text/plain", "application/json"}
    THEN m \o "; charset=utf-8"
    ELSE m

\* res.status(code)
status(res, code) == [res EXCEPT !.statusCode = code]

\* res.type(t)
type(res, t) == [res EXCEPT !.contentType = WithCharset(MimeLookup(t))]

sendPlain(res, chunk) ==
    LET r1 == IF res.contentType = "" THEN type(res, "txt") ELSE res
    IN  [r1 EXCEPT !.body = chunk, !.finished = TRUE]

\* res.send(chunk) for a string chunk: a response without a Content-Type
\* gets type 'html'.
send(res, chunk) ==
    LET r1 == IF res.contentType = "" THEN type(res, "html") ELSE res
    IN  [r1 EXCEPT !.body = chunk, !.finished = TRUE]

\* res.json(obj)
json(res, chunk) ==
    LET r1 == IF res.contentType = "" THEN type(res, "json") ELSE res
    IN  [r1 EXCEPT !.body = chunk, !.finished = TRUE]

(***************************************************************************)
(* The two handlers                                                        *)
(***************************************************************************)
RootHandlerReadme(res) == json(res, "{\"message\":\"Hello from demo-app!\"}")

RootHandler(res) ==
    LET url    == RepoUrl
        anchor == "<a href=\"" \o url
                    \o "\" target=\"_blank\" rel=\"noopener noreferrer\">"
                    \o LinkText \o "</a>"
    IN  send(type(res, "html"), anchor)

HealthHandlerDown(res) == send(status(res, 503), "down")

HealthHandler(res) == send(status(res, 200), "ok")

Invoke(h, res) ==
    CASE h = "root"   -> RootHandler(res)
      [] h = "health" -> HealthHandler(res)

(***************************************************************************)
(* express: routing                                                        *)
(***************************************************************************)
UpperChars == <<"A", "B", "C", "D", "E", "F", "G", "H", "I", "J", "K", "L", "M",
                "N", "O", "P", "Q", "R", "S", "T", "U", "V", "W", "X", "Y", "Z">>

LowerChars == <<"a", "b", "c", "d", "e", "f", "g", "h", "i", "j", "k", "l", "m",
                "n", "o", "p", "q", "r", "s", "t", "u", "v", "w", "x", "y", "z">>

LowerChar(c) ==
    IF \E i \in 1..26 : UpperChars[i] = c
    THEN LowerChars[CHOOSE i \in 1..26 : UpperChars[i] = c]
    ELSE c

ToLower(s) == [i \in 1..Len(s) |-> LowerChar(s[i])]

\* one optional trailing slash (routing is not strict)
StripSlash(s) ==
    IF Len(s) > 0 /\ s[Len(s)] = "/" THEN SubSeq(s, 1, Len(s) - 1) ELSE s

\* Layer.match with the default options: case-insensitive, non-strict, to
\* the end of the path.
MatchPath(routePath, path) ==
    ToLower(StripSlash(path)) = ToLower(StripSlash(routePath))

\* a catch-all that serves the root page for every unknown path
NotFoundFallback(method, path) == RootHandler(NewRes)

\* finalhandler: no layer matched
NotFound(method, path) ==
    [statusCode  |-> 404,
     contentType |-> "text/html; charset=utf-8",
     body        |-> "<pre>Cannot " \o method \o " " \o Join(path) \o "</pre>",
     finished    |-> TRUE]

RECURSIVE Dispatch(_, _, _)
Dispatch(rs, method, path) ==
    IF rs = <<>> THEN NotFound(method, path)
    ELSE IF Head(rs).method = method /\ MatchPath(Head(rs).path, path)
         THEN Invoke(Head(rs).handler, NewRes)
         ELSE Dispatch(Tail(rs), method, path)

(***************************************************************************)
(* node: net.Server.listen                                                 *)
(***************************************************************************)
\* toNumber(x): (x = Number(x)) >= 0 ? x : false
IsPipeName(v) == v.t = "string" /\ ToNumeric(v) < 0

ValidPort(v) ==
    /\ v.t \in {"number", "string"}
    /\ ~(v.t = "string" /\ v.s = <<>>)
    /\ ToNumeric(v) >= 0
    /\ ToNumeric(v) <= MaxPort

\* the ports the operating system may bind for a listen on port p
BindCandidates(p) == IF p = 0 THEN EphemeralPorts ELSE {p}

ListeningLineDefault(p) == "demo-app listening on port " \o JSString(Num(DefaultPort))

ListeningLine(p) == "demo-app listening on port " \o JSString(p)

(***************************************************************************)
(* State                                                                   *)
(***************************************************************************)
NoReq == [st |-> "new", method |-> "GET", path |-> RootPath, dport |-> 0]

Init ==
    /\ env \in {[PORT |-> v] : v \in {Undefined} \cup {Str(s) : s \in EnvPortStrings}}
    /\ port = Undefined
    /\ routes = <<>>
    /\ pc = "line3"
    /\ boundPort = 0
    /\ boundPath = <<>>
    /\ listenCalls = 0
    /\ exitCode = 0
    /\ log = <<>>
    /\ req = [r \in Reqs |-> NoReq]
    /\ wire = <<>>

\* line 3
ReadPort ==
    /\ pc = "line3"
    /\ port' = ReadPortValue(env)
    /\ pc' = "line6"
    /\ UNCHANGED <<env, routes, boundPort, boundPath, listenCalls, exitCode, log, req, wire>>

\* line 6: app.get('/', ...)
RegisterRoot ==
    /\ pc = "line6"
    /\ routes' = Append(routes, [method |-> "GET", path |-> RootPath, handler |-> "root"])
    /\ pc' = "line13"
    /\ UNCHANGED <<env, port, boundPort, boundPath, listenCalls, exitCode, log, req, wire>>

\* line 13: app.get('/health', ...)
RegisterHealth ==
    /\ pc = "line13"
    /\ routes' = Append(routes, [method |-> "GET", path |-> HealthPath, handler |-> "health"])
    /\ pc' = "line17"
    /\ UNCHANGED <<env, port, boundPort, boundPath, listenCalls, exitCode, log, req, wire>>

\* line 17: app.listen(port, cb) throws ERR_SOCKET_BAD_PORT for a port out of
\* range; the exception is uncaught.
ListenThrows ==
    /\ pc = "line17"
    /\ ~IsPipeName(port)
    /\ ~ValidPort(port)
    /\ listenCalls' = listenCalls + 1
    /\ pc' = "exited"
    /\ exitCode' = UncaughtExceptionExitCode
    /\ UNCHANGED <<env, port, routes, boundPort, boundPath, log, req, wire>>

\* line 17: a string that is not a number is a pipe (socket path) name.
ListenPipe ==
    /\ pc = "line17"
    /\ IsPipeName(port)
    /\ listenCalls' = listenCalls + 1
    /\ boundPath' = port.s
    /\ pc' = "bound"
    /\ UNCHANGED <<env, port, routes, boundPort, exitCode, log, req, wire>>

\* line 17: the bind succeeds.
ListenBinds ==
    /\ pc = "line17"
    /\ ~IsPipeName(port)
    /\ ValidPort(port)
    /\ listenCalls' = listenCalls + 1
    /\ \E p \in BindCandidates(ToNumeric(port)) : boundPort' = p
    /\ pc' = "bound"
    /\ UNCHANGED <<env, port, routes, boundPath, exitCode, log, req, wire>>

\* line 17: the bind fails (EADDRINUSE, EACCES); the server will emit 'error'.
ListenBindFails ==
    /\ pc = "line17"
    /\ IsPipeName(port) \/ ValidPort(port)
    /\ listenCalls' = listenCalls + 1
    /\ pc' = "binderror"
    /\ UNCHANGED <<env, port, routes, boundPort, boundPath, exitCode, log, req, wire>>

\* an 'error' listener that tries the listen again
EmitErrorRetry ==
    /\ pc = "binderror"
    /\ pc' = "line17"
    /\ UNCHANGED <<env, port, routes, boundPort, boundPath, listenCalls, exitCode, log, req, wire>>

\* 'error' has no listener: uncaught, the process exits.
EmitError ==
    /\ pc = "binderror"
    /\ pc' = "exited"
    /\ exitCode' = UncaughtExceptionExitCode
    /\ UNCHANGED <<env, port, routes, boundPort, boundPath, listenCalls, log, req, wire>>

\* lines 17-19: 'listening' runs the callback once.
ListeningCallback ==
    /\ pc = "bound"
    /\ log' = Append(log, ListeningLine(port))
    /\ pc' = "listening"
    /\ UNCHANGED <<env, port, routes, boundPort, boundPath, listenCalls, exitCode, req, wire>>

\* connections taken for the configured port before the listen
BoundEarly(d) == pc # "exited" /\ port # Undefined /\ ToNumeric(port) = d

\* does the operating system hold a listening TCP socket of the process on d
Bound(d) == pc \in {"bound", "listening"} /\ boundPort # 0 /\ boundPort = d

\* a client connects to port d and sends a request: the connection is
\* queued for the process when the port is bound and refused otherwise.
Send(r, m, p, d) ==
    /\ req[r].st = "new"
    /\ req' = [req EXCEPT ![r] = [st     |-> IF Bound(d) THEN "queued" ELSE "refused",
                                  method |-> m, path |-> p, dport |-> d]]
    /\ UNCHANGED <<env, port, routes, pc, boundPort, boundPath, listenCalls, exitCode, log, wire>>

\* a handler that keeps the response object in a variable shared by all
\* requests: the answer goes out on the connection of the oldest request.
HandleShared(r) ==
    /\ pc = "listening"
    /\ req[r].st = "queued"
    /\ LET first == CHOOSE q \in Reqs :
                      /\ req[q].st \in {"queued", "answered"}
                      /\ \A q2 \in Reqs : req[q2].st \in {"queued", "answered"} => q <= q2
       IN  wire' = Append(wire, [id       |-> first,
                                 res      |-> Dispatch(routes, req[r].method, req[r].path),
                                 inflight |-> {q \in Reqs \ {r} : req[q].st = "queued"}])
    /\ req' = [req EXCEPT ![r].st = "answered"]
    /\ UNCHANGED <<env, port, routes, pc, boundPort, boundPath, listenCalls, exitCode, log>>

\* the event loop hands a queued request to the application, which answers
\* it in one synchronous run of the matching handler; wire is the sequence
\* of responses written, each with the requests in flight at that moment.
Handle(r) ==
    /\ pc = "listening"
    /\ req[r].st = "queued"
    /\ wire' = Append(wire, [id       |-> r,
                             res      |-> Dispatch(routes, req[r].method, req[r].path),
                             inflight |-> {q \in Reqs \ {r} : req[q].st = "queued"}])
    /\ req' = [req EXCEPT ![r].st = "answered"]
    /\ UNCHANGED <<env, port, routes, pc, boundPort, boundPath, listenCalls, exitCode, log>>

Next ==
    \/ ReadPort
    \/ RegisterRoot
    \/ RegisterHealth
    \/ ListenThrows
    \/ ListenPipe
    \/ ListenBinds
    \/ ListenBindFails
    \/ EmitError
    \/ ListeningCallback
    \/ \E r \in Reqs, m \in Methods, p \in Paths, d \in DstPorts : Send(r, m, p, d)
    \/ \E r \in Reqs : Handle(r)

Spec == Init /\ [][Next]_vars

(***************************************************************************)
(* Properties                                                              *)
(***************************************************************************)
Written == 1..Len(wire)

\* the request that wire[i] answers
ReqOf(i) == req[wire[i].id]

IsGet(q, path) == q.st # "new" /\ q.method = "GET" /\ q.path = path

Started == pc \in {"bound", "listening"}

NopePath == <<"/", "n", "o", "p", "e">>

AnchorText ==
    "<a href=\"https://github.com/KashifWajid/docker-k8s-helm-local-demo\" target=\"_blank\" rel=\"noopener noreferrer\">App 1 : docker-k8s-helm-local-demo</a>"

\* C1: every response written to a GET /health request, whatever was
\* answered before it, has status 200 and the body ok.
C1_HealthOk ==
    \A i \in Written :
        IsGet(ReqOf(i), HealthPath) =>
            /\ wire[i].res.statusCode = 200
            /\ wire[i].res.body = "ok"

C1_Witness ==
    /\ Len(wire) = 2
    /\ ~IsGet(ReqOf(1), HealthPath)
    /\ IsGet(ReqOf(2), HealthPath)
    /\ wire[2].res.statusCode = 200
    /\ wire[2].res.body = "ok"
    /\ boundPort = ReqOf(2).dport

OnlyOn(p) ==
    /\ \A r \in Reqs : req[r].st \in {"queued", "answered"} => req[r].dport = p
    /\ \A i \in Written : ReqOf(i).dport = p

\* C3 as stated: whenever PORT is set to a value P, the started service has
\* bound the port P and takes and answers requests on P only.
C3_Original ==
    (env.PORT # Undefined /\ Started) =>
        /\ boundPath = <<>>
        /\ DigitsOf(boundPort) = env.PORT.s
        /\ OnlyOn(boundPort)

\* C3 amended: whenever PORT is set to the decimal digits of a port number P
\* in 1..65535, the started service has bound the port P, and in every state
\* the requests it took or answered came in on P, so none on the default or
\* another port unless that is P.
C3_PortOverride ==
    LET P == ToNumeric(env.PORT)
    IN  (env.PORT.t = "string" /\ P \in 1..MaxPort /\ env.PORT.s = DigitsOf(P)) =>
            /\ Started => (boundPort = P /\ boundPath = <<>>)
            /\ OnlyOn(P)
            /\ P # 6969 => \A i \in Written : ReqOf(i).dport # 6969

C3_Witness ==
    /\ env.PORT = Str(<<"8", "0", "8", "1">>)
    /\ pc = "listening"
    /\ boundPort = 8081
    /\ \E r \in Reqs : req[r].st = "refused" /\ req[r].dport = 6969
    /\ \E i \in Written : ReqOf(i).dport = 8081

UndefinedRoute(path) ==
    ToLower(StripSlash(path)) \notin {ToLower(StripSlash(RootPath)), ToLower(StripSlash(HealthPath))}

C6_Independent ==
    /\ \A r \in Reqs :
          /\ Cardinality({i \in Written : wire[i].id = r}) <= 1
          /\ req[r].st = "answered" <=> Cardinality({i \in Written : wire[i].id = r}) = 1
    /\ \A i \in Written :
          /\ IsGet(ReqOf(i), RootPath) => wire[i].res.body = AnchorText
          /\ ~UndefinedRoute(ReqOf(i).path) /\ ReqOf(i).method = "POST"
                => wire[i].res.statusCode = 404
          /\ UndefinedRoute(ReqOf(i).path) => wire[i].res.statusCode = 404
          /\ IsGet(ReqOf(i), HealthPath) =>
                (wire[i].res.statusCode = 200 /\ wire[i].res.body = "ok")

C6_Witness ==
    /\ Len(wire) >= 2
    /\ \A i \in 1..2 :
          /\ IsGet(ReqOf(i), HealthPath)
          /\ wire[i].res.statusCode = 200
          /\ wire[i].res.body = "ok"
    /\ wire[1].id # wire[2].id
    /\ wire[2].id \in wire[1].inflight

Serving ==
    \/ Started
    \/ wire # <<>>
    \/ \E r \in Reqs : req[r].st \in {"queued", "answered"}

\* C7: a process whose listen failed serves nothing, called listen once,
\* holds no port, exits with a status other than 0 as its next step and
\* stays exited.
C7_BindFailureFatal ==
    /\ [](pc \in {"binderror", "exited"} =>
            (~Serving /\ listenCalls = 1 /\ boundPort = 0 /\ boundPath = <<>>))
    /\ [](pc = "exited" => exitCode # 0)
    /\ [][pc = "binderror" /\ pc' # pc => pc' = "exited" /\ exitCode' # 0]_vars
    /\ [][pc = "exited" => pc' = "exited" /\ exitCode' = exitCode]_vars

C7_Witness ==
    /\ pc = "exited"
    /\ exitCode = 1
    /\ ValidPort(port)
    /\ \E r \in Reqs : req[r].st = "refused" /\ req[r].dport = ToNumeric(port)

HealthResponses == {i \in Written : IsGet(ReqOf(i), HealthPath)}

\* C8 as stated: every response to GET /health has the content type
\* text/plain.
C8_Original ==
    \A i \in HealthResponses :
        wire[i].res.contentType \in {"text/plain", "text/plain; charset=utf-8"}

\* C8 amended: every response to GET /health has the content type
\* text/html; charset=utf-8, with status 200 and body ok.
C8_HealthContentType ==
    \A i \in HealthResponses :
        /\ wire[i].res.contentType = "text/html; charset=utf-8"
        /\ wire[i].res.statusCode = 200
        /\ wire[i].res.body = "ok"

C8_Witness ==
    \E i \in HealthResponses : wire[i].res.contentType = "text/html; charset=utf-8"

\* C9: a request is queued for the process or answered only if the one
\* listen has succeeded and bound the port the request came in on, and
\* responses are written only once the server is listening.
C9_BoundBeforeAccept ==
    /\ \A r \in Reqs :
          req[r].st \in {"queued", "answered"} =>
              /\ pc \in {"bound", "listening"}
              /\ listenCalls = 1
              /\ boundPort # 0
              /\ req[r].dport = boundPort
    /\ wire # <<>> => pc = "listening"

C9_Witness ==
    /\ pc = "bound"
    /\ \E r \in Reqs : req[r].st = "queued"
    /\ \E r \in Reqs : req[r].st = "refused" /\ req[r].dport = boundPort

\* the port as configured: the PORT value when it is set and not empty, else 6969
ConfiguredPortText ==
    IF env.PORT # Undefined /\ env.PORT.s # <<>> THEN Join(env.PORT.s) ELSE "6969"

\* C10: the log holds at most the one line 'demo-app listening on port
\* <configured port>'; it holds it exactly when the listening callback has
\* run, never after a failed listen, and no request changes it.
C10_LogOnce ==
    /\ [](Len(log) <= 1)
    /\ [](Len(log) = 1 <=> pc = "listening")
    /\ [](pc \in {"line3", "line6", "line13", "line17", "bound", "binderror", "exited"}
            => log = <<>>)
    /\ [](log # <<>> => log[1] = "demo-app listening on port " \o ConfiguredPortText)
    /\ [][req' # req \/ wire' # wire => log' = log]_vars
    /\ [][log # <<>> => log' = log]_vars

C10_Witness ==
    /\ log = <<"demo-app listening on port 8081">>
    /\ boundPort = 8081
    /\ wire # <<>>

====
